---- MODULE Spec2Model ----
(***************************************************************************)
(* A model of the Bitrix24 client (src/bitrix24/bitrix24.py): the call /   *)
(* refresh_tokens / sleep retry machine and the batch helper built on it.  *)
(*                                                                         *)
(* The client blocks in three places: the POST to the API endpoint, the    *)
(* POST to the OAuth endpoint and sleep(2).  Every action of the model is  *)
(* the code that runs between two such points.  The recursion of call is   *)
(* a tail recursion in effect (every frame returns what the inner frame    *)
(* returned), so the stack is kept as its depth.                           *)
(*                                                                         *)
(* Python values are records tagged with t: None, str, dict, list, and a   *)
(* reference to a list object of the caller (the lists of a command map    *)
(* are shared between the caller, batch and prepare_batch).  A mapping     *)
(* with string keys is a TLA+ function.  Request-ids are numbers whose     *)
(* order stands for the lexicographic order of the ids.  Form encoding is  *)
(* written without percent-escapes.                                        *)
(*                                                                         *)
(* Spec is one public operation of one caller.  SpecCall is one call with  *)
(* weak fairness of its steps, SpecTwice lets the caller invoke batch a    *)
(* second time with the same params object, and SpecConc runs two calls    *)
(* of two threads on one client.                                           *)
(***************************************************************************)
EXTENDS Integers, Sequences, FiniteSets, TLC

\* ------------------------------------------------------------- bounds
\* The largest command map handed to batch.
MaxCmds == 120
\* The number of recoverable responses (auth expiry, rate limit) the server
\* gives within one public operation.
MaxRetries == 2
\* The largest command map handed to encode_cmd.
MaxIds == 3

\* -------------------------------------------------- program constants
timeout == 60
DEFAULT_RETRIES == 10
BATCH_LIMIT == 49
webhook_user == 1

domain == "example"
oauth_url == "https://oauth.bitrix.info/oauth/token/"
client_id == "app"
client_secret == "secret"

\* ------------------------------------------------------ Python values
PyNone == [t |-> "None"]
PyStr(s) == [t |-> "str", v |-> s]
PyDict(f) == [t |-> "dict", v |-> f]
PyItems(items) == [t |-> "items", v |-> items]
PyRef(id) == [t |-> "ref", v |-> id]
PyTrue == [t |-> "bool", v |-> TRUE]
PyBundle(halt, cmd, prepared) ==
    [t |-> "bundle", halt |-> halt, cmd |-> cmd, prepared |-> prepared]

\* a dict of the caller: its items and the order in which they were inserted
PyOrdered(f, order) == [t |-> "dict", v |-> f, order |-> order]

EmptyMap == <<>>
ErrorMap(msg) == PyDict("error" :> msg)

HasKey(val, k) == val.t = "dict" /\ k \in DOMAIN val.v

\* F(e) with e evaluated once: a local name bound to a value
With(e, F(_)) == CHOOSE r \in {F(x) : x \in {e}} : TRUE

\* sorted(): the ascending sequence of a finite set of request-ids (the i-th
\* element is the one with i - 1 smaller ones)
sorted(S) ==
    With([x \in S |-> Cardinality({y \in S : y < x})],
         LAMBDA rank : [i \in 1..Cardinality(S) |-> CHOOSE x \in S : rank[x] = i - 1])

\* cmd.keys(): the ids in insertion order.  A mapping the client builds itself
\* (batched_params of prepare_batch, batch of batch) is filled in sorted order.
keys(cmd) == IF "order" \in DOMAIN cmd THEN cmd.order ELSE sorted(DOMAIN cmd.v)

\* s += f[lo] + ... + f[hi], the strings a loop appends one after the other
RECURSIVE Joined(_, _, _)
Joined(f, lo, hi) ==
    IF lo > hi THEN ""
    ELSE IF lo = hi THEN f[lo]
    ELSE LET mid == (lo + hi) \div 2
         IN Joined(f, lo, mid) \o Joined(f, mid + 1, hi)

\* ------------------------------------------------------ form encoding
\* urlencode of a flat mapping given as its sequence of <<key, value>> items
RECURSIVE urlencode(_)
urlencode(items) ==
    IF items = <<>> THEN ""
    ELSE LET h == Head(items)
         IN h[1] \o "=" \o h[2]
            \o (IF Len(items) > 1 THEN "&" \o urlencode(Tail(items)) ELSE "")

\* urlencode of the items of a mapping nested under a bracketed key path
PrefixItems(prefix, items) ==
    [j \in 1..Len(items) |-> <<prefix \o "[" \o items[j][1] \o "]", items[j][2]>>]

\* temp of prepare_batch: every remaining element encoded and followed by '&'
RECURSIVE EncodeRest(_)
EncodeRest(elems) ==
    IF elems = <<>> THEN ""
    ELSE urlencode(Head(elems).v) \o "&" \o EncodeRest(Tail(elems))

\* one pass of the loop of prepare_batch (lines 143-151): popped says whether
\* pop(0) changed the list object before the pass ended
PrepareOne(val, lists) ==
    IF val.t # "ref" THEN
        [ok |-> FALSE, fault |-> "Exception: Invalid 'cmd' method description",
         popped |-> FALSE, value |-> PyNone]
    ELSE
        LET l == lists[val.v]
        IN IF l = <<>> THEN
               [ok |-> FALSE, fault |-> "IndexError", popped |-> FALSE, value |-> PyNone]
           ELSE IF Head(l) = PyStr("batch") THEN
               [ok |-> FALSE,
                fault |-> "Exception: Batch call cannot contain batch methods",
                popped |-> TRUE, value |-> PyNone]
           ELSE IF Head(l).t # "str" \/ \E j \in 2..Len(l) : l[j].t # "items" THEN
               [ok |-> FALSE, fault |-> "TypeError", popped |-> TRUE, value |-> PyNone]
           ELSE
               [ok |-> TRUE, fault |-> "", popped |-> TRUE,
                value |-> PyStr(Head(l).v \o "?" \o EncodeRest(Tail(l)))]

\* prepare_batch: the passes run in sorted order of the ids and stop at the
\* first one that raises; every pass works on the list object of its own id
prepare_batch(params, lists) ==
    IF params.t # "dict" THEN
        [ok |-> FALSE, fault |-> "Exception: Invalid 'cmd' structure",
         cmd |-> params, lists |-> lists]
    ELSE
        With(sorted(DOMAIN params.v), LAMBDA ks :
        With([k \in 1..Len(ks) |-> PrepareOne(params.v[ks[k]], lists)], LAMBDA one :
        With({k \in 1..Len(ks) : ~one[k].ok}, LAMBDA bad :
        With(IF bad = {} THEN Len(ks) + 1 ELSE CHOOSE k \in bad : \A j \in bad : k <= j,
             LAMBDA stop :
        With({params.v[ks[k]].v :
                 k \in {j \in 1..Len(ks) : j < stop \/ (j = stop /\ one[j].popped)}},
             LAMBDA popped :
            [ok |-> bad = {},
             fault |-> IF bad = {} THEN "" ELSE one[stop].fault,
             cmd |-> PyDict([i \in {ks[k] : k \in 1..(stop - 1)} |->
                                PrepareOne(params.v[i], lists).value]),
             lists |-> [i \in DOMAIN lists |->
                           IF i \in popped THEN Tail(lists[i]) ELSE lists[i]]])))))

\* the fragments of one command: a prepared string is one fragment, a list
\* that was never prepared is flattened element by element
RECURSIVE EncodeElems(_, _, _)
EncodeElems(prefix, elems, j) ==
    IF j > Len(elems) THEN <<>>
    ELSE LET p == prefix \o "[" \o ToString(j - 1) \o "]"
         IN (IF elems[j].t = "str" THEN <<<<p, elems[j].v>>>>
             ELSE PrefixItems(p, elems[j].v))
            \o EncodeElems(prefix, elems, j + 1)

CmdItems(i, val, lists) ==
    LET p == "cmd[" \o ToString(i) \o "]"
    IN IF val.t = "str" THEN <<<<p, val.v>>>>
       ELSE EncodeElems(p, lists[val.v], 1)

\* the ids taken in the order in which the mapping hands them out
encode_cmdUnsorted(cmd, lists) ==
    With(keys(cmd), LAMBDA ks :
    With([k \in 1..Len(ks) |->
             urlencode(CmdItems(ks[k], cmd.v[ks[k]], lists)) \o "&"],
         LAMBDA fragments : Joined(fragments, 1, Len(fragments))))

\* encode_cmd: one fragment and '&' per id, in sorted order of the ids
encode_cmd(cmd, lists) ==
    With(keys(cmd), LAMBDA unsorted :
    With(sorted({unsorted[j] : j \in 1..Len(unsorted)}), LAMBDA ks :
    With([k \in 1..Len(ks) |->
             urlencode(CmdItems(ks[k], cmd.v[ks[k]], lists)) \o "&"],
         LAMBDA fragments : Joined(fragments, 1, Len(fragments)))))

\* one pass of the slot loop of call: the text a slot adds to the body
EncodeSlot(i, lists) ==
    IF i.t = "bundle" THEN
        encode_cmd(i.cmd, lists) \o "&" \o urlencode(<<<<"halt", i.halt>>>>) \o "&"
    ELSE urlencode(i.v) \o "&"

RECURSIVE EncodeSlots(_, _)
EncodeSlots(slots, lists) ==
    IF slots = <<>> THEN <<>>
    ELSE (IF Head(slots).t = "None" THEN <<>> ELSE <<EncodeSlot(Head(slots), lists)>>)
         \o EncodeSlots(Tail(slots), lists)

get_url(m, key) ==
    IF key # "" THEN
        "https://" \o domain \o ".bitrix24.ru/rest/" \o ToString(webhook_user)
            \o "/" \o key \o "/" \o m
    ELSE "https://" \o domain \o "/rest/" \o m \o ".json"

\* merge_two_dicts: z = x.copy(); z.update(y)
merge_two_dicts(x, y) ==
    [k \in DOMAIN x \cup DOMAIN y |-> IF k \in DOMAIN y THEN y[k] ELSE x[k]]

\* ------------------------------------------------------------- state
VARIABLES
    auth_token,     \* self.auth_token
    refresh_token,  \* self.refresh_token
    webhook_key,    \* self.webhook_key
    op,             \* the public operation running: "none", "call", "batch"
    pc,             \* "idle", "post", "oauth", "sleep", "returned", "raised"
    fault,          \* the exception that left the public operation
    method,         \* method of the running call
    params,         \* <<params1, params2, params3, params4>> of the running call
    lists,          \* the caller's list objects, by request-id
    depth,          \* number of call frames on the stack
    lastReq,        \* the last request sent to the API endpoint
    reqCount,       \* requests sent to the API endpoint in this operation
    lastResp,       \* the last response of the API endpoint
    lastOAuthReq,   \* the last request sent to the OAuth endpoint
    oauthCount,     \* requests sent to the OAuth endpoint in this operation
    lastOAuth,      \* the last response of the OAuth endpoint
    refreshResult,  \* what the last refresh_tokens returned
    sleepCount,     \* completed sleep(2) calls in this operation
    retries,        \* recoverable responses handled in this operation
    callResult,     \* what the last outermost call returned
    result,         \* what the public operation returned
    userParams,     \* params of batch
    ids,            \* sorted(params['cmd'].keys()) of batch
    count,          \* count of batch
    acc,            \* result['result'] of batch
    chunkLog,       \* the ids of every call('batch', ...) of batch, as sent
    seen,           \* per sub-map, the first value each key had in a merged chunk
    prepareCount,   \* calls of prepare_batch in this operation
    invocation,     \* how many times the caller has invoked the operation
    peer            \* the frame of a second thread that uses the same client

vars == <<auth_token, refresh_token, webhook_key, op, pc, fault, method, params,
          lists, depth, lastReq, reqCount, lastResp, lastOAuthReq, oauthCount,
          lastOAuth, refreshResult, sleepCount, retries, callResult, result,
          userParams, ids, count, acc, chunkLog, seen, prepareCount, invocation,
          peer>>

\* the state as one record, so that the code between two blocking points
\* composes as functions on it
St ==
    [auth_token |-> auth_token, refresh_token |-> refresh_token,
     webhook_key |-> webhook_key, op |-> op, pc |-> pc, fault |-> fault,
     method |-> method, params |-> params, lists |-> lists, depth |-> depth,
     lastReq |-> lastReq, reqCount |-> reqCount, lastResp |-> lastResp,
     lastOAuthReq |-> lastOAuthReq, oauthCount |-> oauthCount,
     lastOAuth |-> lastOAuth, refreshResult |-> refreshResult,
     sleepCount |-> sleepCount, retries |-> retries, callResult |-> callResult,
     result |-> result, userParams |-> userParams, ids |-> ids, count |-> count,
     acc |-> acc, chunkLog |-> chunkLog, seen |-> seen,
     prepareCount |-> prepareCount, invocation |-> invocation]

Becomes(s) ==
    /\ auth_token' = s.auth_token
    /\ refresh_token' = s.refresh_token
    /\ webhook_key' = s.webhook_key
    /\ op' = s.op
    /\ pc' = s.pc
    /\ fault' = s.fault
    /\ method' = s.method
    /\ params' = s.params
    /\ lists' = s.lists
    /\ depth' = s.depth
    /\ lastReq' = s.lastReq
    /\ reqCount' = s.reqCount
    /\ lastResp' = s.lastResp
    /\ lastOAuthReq' = s.lastOAuthReq
    /\ oauthCount' = s.oauthCount
    /\ lastOAuth' = s.lastOAuth
    /\ refreshResult' = s.refreshResult
    /\ sleepCount' = s.sleepCount
    /\ retries' = s.retries
    /\ callResult' = s.callResult
    /\ result' = s.result
    /\ userParams' = s.userParams
    /\ ids' = s.ids
    /\ count' = s.count
    /\ acc' = s.acc
    /\ chunkLog' = s.chunkLog
    /\ seen' = s.seen
    /\ prepareCount' = s.prepareCount
    /\ invocation' = s.invocation

SubMaps == {"result_error", "result_total", "result", "result_next"}
EmptyAcc == [k \in SubMaps |-> EmptyMap]

NoRequest == [method |-> "", url |-> "", params |-> <<>>, auth |-> <<>>]
NoResponse == [kind |-> "none", text |-> "", json |-> PyNone]
NoOAuthRequest == [url |-> "", grant_type |-> "", client_id |-> "",
                   client_secret |-> "", refresh_token |-> ""]

\* ---------------------------------------------------------------- call
Raise(s, exc) == [s EXCEPT !.pc = "raised", !.fault = exc]

\* the POST body of call: the slots in order, then the auth slot
Request(m, ps, tok, wk, ls) ==
    [method |-> m,
     url |-> get_url(m, wk),
     params |-> EncodeSlots(ps, ls),
     auth |-> IF tok # "" THEN <<urlencode(<<<<"auth", tok>>>>) \o "&">> ELSE <<>>]

\* the bundle prepared on every attempt, whatever its marker says
PrepareBundleUnmarked(m, ps, ls) ==
    IF m # "batch" \/ ps[1].t # "bundle" THEN
        [ok |-> TRUE, fault |-> "", params |-> ps, lists |-> ls, applied |-> FALSE]
    ELSE
        With(prepare_batch(ps[1].cmd, ls), LAMBDA r :
            [ok |-> r.ok, fault |-> r.fault, lists |-> r.lists, applied |-> TRUE,
             params |-> IF r.ok
                        THEN [ps EXCEPT ![1] = PyBundle(ps[1].halt, r.cmd, TRUE)]
                        ELSE ps])

\* lines 55-57: a batch bundle is prepared once and marked; applied says
\* whether prepare_batch was called
PrepareBundle(m, ps, ls) ==
    IF m # "batch" THEN
        [ok |-> TRUE, fault |-> "", params |-> ps, lists |-> ls, applied |-> FALSE]
    ELSE IF ps[1].t = "None" THEN
        [ok |-> FALSE, fault |-> "TypeError", params |-> ps, lists |-> ls,
         applied |-> FALSE]
    ELSE IF ps[1].t # "bundle" THEN
        [ok |-> FALSE, fault |-> "KeyError", params |-> ps, lists |-> ls,
         applied |-> FALSE]
    ELSE IF ps[1].prepared THEN
        [ok |-> TRUE, fault |-> "", params |-> ps, lists |-> ls, applied |-> FALSE]
    ELSE
        With(prepare_batch(ps[1].cmd, ls), LAMBDA r :
            [ok |-> r.ok, fault |-> r.fault, lists |-> r.lists, applied |-> TRUE,
             params |-> IF r.ok
                        THEN [ps EXCEPT ![1] = PyBundle(ps[1].halt, r.cmd, TRUE)]
                        ELSE ps])

\* call, from its entry to the POST (lines 52-75)
call(s, m, ps) ==
    IF m.t # "str" \/ m = PyStr("") THEN Raise(s, "Exception: Empty Method")
    ELSE
        With(PrepareBundle(m.v, ps, s.lists), LAMBDA p :
        With([s EXCEPT !.lists = p.lists,
                       !.prepareCount = IF p.applied THEN @ + 1 ELSE @], LAMBDA s1 :
            IF ~p.ok THEN Raise(s1, p.fault)
            ELSE [s1 EXCEPT !.method = m.v, !.params = p.params,
                            !.depth = @ + 1, !.pc = "post", !.reqCount = @ + 1,
                            !.lastReq = Request(m.v, p.params, s.auth_token,
                                                s.webhook_key, p.lists)]))

AuthErrors == {"NO_AUTH_FOUND", "expired_token"}
LimitErrors == {"QUERY_LIMIT_EXCEEDED"}

\* the messages of the two transport failures exchanged
DecodeSwapped(resp) ==
    CASE resp.kind = "text" ->
            ErrorMap("Error on decode api response [" \o resp.text \o "]")
      [] resp.kind = "ReadTimeout" ->
            ErrorMap("Max retries exceeded [" \o ToString(DEFAULT_RETRIES) \o "]")
      [] resp.kind = "ConnectionError" ->
            ErrorMap("Timeout waiting expired [" \o ToString(timeout) \o " sec]")
      [] OTHER -> resp.json

\* lines 75-83: the response decoded, or the error mapping of the except clause
Decode(resp) ==
    CASE resp.kind = "text" ->
            ErrorMap("Error on decode api response [" \o resp.text \o "]")
      [] resp.kind = "ReadTimeout" ->
            ErrorMap("Timeout waiting expired [" \o ToString(timeout) \o " sec]")
      [] resp.kind = "ConnectionError" ->
            ErrorMap("Max retries exceeded [" \o ToString(DEFAULT_RETRIES) \o "]")
      [] OTHER -> resp.json

\* line 84: the test for an expired authorisation
IsAuthError(res) == HasKey(res, "error") /\ res.v["error"] \in AuthErrors
\* a misspelt rate limit code
IsLimitErrorMisspelt(res) ==
    HasKey(res, "error") /\ res.v["error"] \in {"QUERY_LIMIT_EXCEDED"}

\* line 90: the test for the rate limit
IsLimitError(res) == HasKey(res, "error") /\ res.v["error"] \in LimitErrors

\* the test for the last, shorter chunk left out
ChunkReadyFullOnly(batch, cnt, total) ==
    Cardinality(DOMAIN batch) = BATCH_LIMIT

\* line 189: the chunk is sent when it is full or the ids are used up
ChunkReady(batch, cnt, total) ==
    Cardinality(DOMAIN batch) = BATCH_LIMIT \/ cnt = total

\* the operands of the merge the other way round
MergeChunkNewWins(chunk, accumulated) == merge_two_dicts(accumulated, chunk)

\* line 193: a sub-map of the chunk merged with the accumulator's
MergeChunk(chunk, accumulated) == merge_two_dicts(chunk, accumulated)

\* only the result sub-map merged
MergeResultOnly(temp, accumulated) ==
    [k \in DOMAIN accumulated |->
        IF k = "result" /\ k \in DOMAIN temp /\ DOMAIN temp[k] # {}
        THEN MergeChunk(temp[k], accumulated[k])
        ELSE accumulated[k]]

\* lines 191-193 for the sub-map names of one chunk result
MergeResult(temp, accumulated) ==
    [k \in DOMAIN accumulated |->
        IF k \in DOMAIN temp /\ DOMAIN temp[k] # {}
        THEN MergeChunk(temp[k], accumulated[k])
        ELSE accumulated[k]]

FirstSeen(temp, before) ==
    [k \in DOMAIN before |->
        IF k \in DOMAIN temp
        THEN [j \in DOMAIN before[k] \cup DOMAIN temp[k] |->
                 IF j \in DOMAIN before[k] THEN before[k][j] ELSE temp[k][j]]
        ELSE before[k]]

\* batch from the for statement on (lines 186-196), up to the POST of the
\* next chunk or the return: the ids go into the chunk one by one until the
\* test of line 189 holds
batch_loop(s) ==
    With(Cardinality(DOMAIN s.userParams.cmd.v), LAMBDA total :
    With([c \in (s.count + 1)..Len(s.ids) |->
             [i \in {s.ids[k] : k \in (s.count + 1)..c} |-> s.userParams.cmd.v[i]]],
         LAMBDA chunk :
    With({c \in DOMAIN chunk : ChunkReady(chunk[c], c, total)}, LAMBDA ready :
        IF ready = {} THEN
            [s EXCEPT !.count = Len(s.ids), !.pc = "returned",
                      !.result = PyDict("result" :> PyDict(s.acc))]
        ELSE
            With(CHOOSE x \in ready : \A y \in ready : x <= y, LAMBDA c :
            With(call([s EXCEPT !.count = c], PyStr("batch"),
                      <<PyBundle(s.userParams.halt, PyDict(chunk[c]), FALSE),
                        PyNone, PyNone, PyNone>>),
                 LAMBDA s2 :
                IF s2.pc = "post"
                THEN [s2 EXCEPT !.chunkLog = Append(@, sorted(DOMAIN s2.params[1].cmd.v))]
                ELSE s2)))))

\* batch after call returned temp (lines 191-194), then on with the loop
batch_merge(s, temp) ==
    IF ~HasKey(temp, "result") THEN Raise(s, "KeyError")
    ELSE IF temp.v["result"].t # "dict" THEN Raise(s, "TypeError")
    ELSE
        LET r == temp.v["result"].v
        IN IF \E k \in DOMAIN r : DOMAIN r[k] # {} /\ k \notin DOMAIN s.acc
           THEN Raise(s, "KeyError")
           ELSE batch_loop([s EXCEPT !.acc = MergeResult(r, s.acc),
                                     !.seen = FirstSeen(r, s.seen)])

\* the outermost call returns res, and with it every frame of the recursion
Return(s, res) ==
    LET s1 == [s EXCEPT !.callResult = res, !.depth = 0]
    IN IF s.op = "batch" THEN batch_merge(s1, res)
       ELSE [s1 EXCEPT !.pc = "returned", !.result = res]

\* line 85, refresh_tokens up to its POST (lines 101-107)
StartRefresh(s) ==
    [s EXCEPT !.pc = "oauth", !.oauthCount = @ + 1,
              !.lastOAuthReq = [url |-> oauth_url, grant_type |-> "refresh_token",
                                client_id |-> client_id,
                                client_secret |-> client_secret,
                                refresh_token |-> s.refresh_token]]

\* the call made again at once, without sleep(2)
StartSleepSkipped(s) == call(s, PyStr(s.method), s.params)

\* a cap on the retries: the rate limit error returned once they are used up
StartSleepCapped(s) ==
    IF s.retries >= MaxRetries THEN Return(s, s.lastResp.json)
    ELSE [s EXCEPT !.pc = "sleep"]

\* lines 90-93: the rate limit branch up to sleep(2)
StartSleep(s) == [s EXCEPT !.pc = "sleep"]

\* call from the response of the POST on (lines 75-95)
call_response(s, resp) ==
    LET res == Decode(resp)
        s1 == [s EXCEPT !.lastResp = resp]
    IN IF IsAuthError(res) THEN StartRefresh([s1 EXCEPT !.retries = @ + 1])
       ELSE IF IsLimitError(res) THEN StartSleep([s1 EXCEPT !.retries = @ + 1])
       ELSE Return(s1, res)

\* the two tokens assigned to each other's field
AssignTokensSwapped(s, o) ==
    IF o.kind = "text" THEN [st |-> s, ok |-> FALSE]
    ELSE IF "access_token" \notin DOMAIN o.json.v THEN [st |-> s, ok |-> FALSE]
    ELSE IF "refresh_token" \notin DOMAIN o.json.v
    THEN [st |-> [s EXCEPT !.auth_token = o.json.v["access_token"]], ok |-> FALSE]
    ELSE [st |-> [s EXCEPT !.auth_token = o.json.v["refresh_token"],
                           !.refresh_token = o.json.v["access_token"]],
          ok |-> TRUE]

\* a response without refresh_token accepted, the old refresh token kept
AssignTokensLenient(s, o) ==
    IF o.kind = "text" THEN [st |-> s, ok |-> FALSE]
    ELSE IF "access_token" \notin DOMAIN o.json.v THEN [st |-> s, ok |-> FALSE]
    ELSE [st |-> [s EXCEPT !.auth_token = o.json.v["access_token"],
                           !.refresh_token =
                               IF "refresh_token" \in DOMAIN o.json.v
                               THEN o.json.v["refresh_token"] ELSE @],
          ok |-> TRUE]

\* lines 108-116: the tokens are assigned one after the other inside the try
AssignTokens(s, o) ==
    IF o.kind = "text" THEN [st |-> s, ok |-> FALSE]
    ELSE IF "access_token" \notin DOMAIN o.json.v THEN [st |-> s, ok |-> FALSE]
    ELSE
        LET s1 == [s EXCEPT !.auth_token = o.json.v["access_token"]]
        IN IF "refresh_token" \notin DOMAIN o.json.v THEN [st |-> s1, ok |-> FALSE]
           ELSE [st |-> [s1 EXCEPT !.refresh_token = o.json.v["refresh_token"]],
                 ok |-> TRUE]

\* the retry sent with the body encoded for the attempt that was refused
refresh_responseStale(s, o) ==
    IF o.kind = "ConnectionError" THEN Raise([s EXCEPT !.lastOAuth = o], "ConnectionError")
    ELSE
        With(AssignTokens([s EXCEPT !.lastOAuth = o], o), LAMBDA a :
            IF a.ok
            THEN [call([a.st EXCEPT !.refreshResult = PyTrue], PyStr(s.method), s.params)
                     EXCEPT !.lastReq = [@ EXCEPT !.auth = s.lastReq.auth]]
            ELSE Return([a.st EXCEPT !.refreshResult =
                            ErrorMap("Error on decode oauth response [" \o o.text \o "]")],
                        ErrorMap("Error on decode oauth response [" \o o.text \o "]")))

\* refresh_tokens from the response of its POST on, then call lines 86-89
refresh_response(s, o) ==
    IF o.kind = "ConnectionError" THEN Raise([s EXCEPT !.lastOAuth = o], "ConnectionError")
    ELSE
        With(AssignTokens([s EXCEPT !.lastOAuth = o], o), LAMBDA a :
            IF a.ok
            THEN call([a.st EXCEPT !.refreshResult = PyTrue],
                      PyStr(s.method), s.params)
            ELSE Return([a.st EXCEPT !.refreshResult =
                            ErrorMap("Error on decode oauth response [" \o o.text \o "]")],
                        ErrorMap("Error on decode oauth response [" \o o.text \o "]")))

\* refresh_tokens from the response of its POST to the assignment of line 110,
\* for a client that other threads use: the next statement is a step of its own
refresh_access(s, o) ==
    IF o.kind = "ConnectionError" THEN Raise([s EXCEPT !.lastOAuth = o], "ConnectionError")
    ELSE IF o.kind = "text" \/ "access_token" \notin DOMAIN o.json.v THEN
        Return([s EXCEPT !.lastOAuth = o,
                         !.refreshResult =
                             ErrorMap("Error on decode oauth response [" \o o.text \o "]")],
               ErrorMap("Error on decode oauth response [" \o o.text \o "]"))
    ELSE [s EXCEPT !.lastOAuth = o, !.auth_token = o.json.v["access_token"],
                   !.pc = "assign"]

\* the refresh token left as it was
refresh_restUnassigned(s) ==
    call([s EXCEPT !.refreshResult = PyTrue], PyStr(s.method), s.params)

\* refresh_tokens from line 111 on, then call lines 86-89
refresh_rest(s) ==
    IF "refresh_token" \notin DOMAIN s.lastOAuth.json.v THEN
        Return([s EXCEPT !.refreshResult =
                   ErrorMap("Error on decode oauth response [" \o s.lastOAuth.text \o "]")],
               ErrorMap("Error on decode oauth response [" \o s.lastOAuth.text \o "]"))
    ELSE call([s EXCEPT !.refresh_token = s.lastOAuth.json.v["refresh_token"],
                        !.refreshResult = PyTrue],
              PyStr(s.method), s.params)

\* lines 93-94: sleep(2) is over, the call is made again
sleep_done(s) ==
    call([s EXCEPT !.sleepCount = @ + 1], PyStr(s.method), s.params)

\* line 173: params has the keys halt and cmd (a mapping with both is a bundle)
HasBatchKeys(ps) == ps.t = "bundle"

\* the structure error raised like the errors of prepare_batch
InvalidStructureRaised(s) == Raise(s, "Exception: Invalid batch structure")

\* line 174
InvalidStructure(s) ==
    [s EXCEPT !.pc = "returned", !.result = ErrorMap("Invalid batch structure")]

\* batch from its entry to the first POST (lines 173-190)
batch(s, ps) ==
    IF ~HasBatchKeys(ps) THEN InvalidStructure([s EXCEPT !.userParams = ps])
    ELSE IF ps.cmd.t # "dict" THEN Raise([s EXCEPT !.userParams = ps], "AttributeError")
    ELSE batch_loop([s EXCEPT !.userParams = ps, !.acc = EmptyAcc,
                              !.seen = EmptyAcc, !.count = 0,
                              !.ids = sorted(DOMAIN ps.cmd.v)])

\* get_tokens (line 122)
get_tokens(s) ==
    [s EXCEPT !.pc = "returned",
              !.result = PyDict(("auth_token" :> s.auth_token)
                                @@ ("refresh_token" :> s.refresh_token))]

\* ------------------------------------------------------- environment
\* what the caller passes: plain calls, a batch through call, and batch
UserList(i) ==
    <<PyStr("user.get"), PyItems(<<<<"ID", ToString(i)>>>>)>>
UserLists(n) == [i \in 1..n |-> UserList(i)]
UserCmd(n) == PyDict([i \in 1..n |-> PyRef(i)])

\* a command map with one description that is no list ("string": the method
\* alone, as a string) or that names the method batch ("nested"), at id p
BadKinds == {"string", "nested"}
UserListsWith(n, p, kind) ==
    [i \in 1..n |-> IF i = p /\ kind = "nested"
                    THEN <<PyStr("batch"), PyItems(<<<<"halt", "0">>>>)>>
                    ELSE UserList(i)]
UserCmdWith(n, p, kind) ==
    PyDict([i \in 1..n |-> IF i = p /\ kind = "string" THEN PyStr("user.get")
                           ELSE PyRef(i)])
BadBundles(n, spots) ==
    { [params |-> PyBundle("0", UserCmdWith(n, p, k), FALSE),
       lists |-> UserListsWith(n, p, k)] : p \in spots, k \in BadKinds }
    \cup { [params |-> PyBundle("0", PyStr("user.get"), FALSE), lists |-> <<>>] }

OneSlot(ps) == <<ps, PyNone, PyNone, PyNone>>
CallInputs ==
    { [method |-> PyStr("user.current"), params |-> OneSlot(PyNone), lists |-> <<>>],
      [method |-> PyStr("crm.lead.update"),
       params |-> <<PyItems(<<<<"ID", "7">>>>), PyItems(<<<<"fields[TITLE]", "t">>>>),
                    PyNone, PyNone>>,
       lists |-> <<>>],
      [method |-> PyStr("batch"), params |-> OneSlot(PyBundle("0", UserCmd(2), FALSE)),
       lists |-> UserLists(2)],
      [method |-> PyStr(""), params |-> OneSlot(PyNone), lists |-> <<>>],
      [method |-> PyNone, params |-> OneSlot(PyNone), lists |-> <<>>] }
    \cup { [method |-> PyStr("batch"), params |-> OneSlot(b.params), lists |-> b.lists] :
              b \in BadBundles(2, {1, 2}) }

\* the sizes of the command maps handed to batch: those next to a multiple of
\* the chunk size, and the largest
BatchSizes ==
    { n \in 0..MaxCmds :
        \/ n = MaxCmds
        \/ \E q \in 0..(MaxCmds \div BATCH_LIMIT) : n - q * BATCH_LIMIT \in {-1, 0, 1} }

\* params of batch: well formed, with a bad description in the first or in the
\* second chunk, with a cmd that is no mapping, and without halt or cmd
BatchInputs ==
    { [params |-> PyBundle("0", UserCmd(n), FALSE), lists |-> UserLists(n)] :
          n \in BatchSizes }
    \cup BadBundles(BATCH_LIMIT + 1, {1, BATCH_LIMIT + 1})
    \cup { [params |-> PyDict(f), lists |-> <<>>] :
              f \in {EmptyMap, "halt" :> PyStr("0"), "cmd" :> UserCmd(0)} }

\* cmd of encode_cmd: up to MaxIds ids in every insertion order, the commands
\* prepared or not
Orders(S) ==
    { q \in [1..Cardinality(S) -> S] : \A i, j \in DOMAIN q : i # j => q[i] # q[j] }
EncodeInputs ==
    UNION { { [cmd |-> PyOrdered([i \in S |->
                                    IF prepared
                                    THEN PyStr("user.get?ID=" \o ToString(i) \o "&")
                                    ELSE PyRef(i)], q),
               lists |-> UserLists(MaxIds)] :
                  q \in Orders(S), prepared \in BOOLEAN } :
            S \in SUBSET (1..MaxIds) }

\* what the API endpoint answers
ErrorCodes == AuthErrors \cup LimitErrors \cup {"ACCESS_DENIED"}
JsonResponse(text, f) == [kind |-> "json", text |-> text, json |-> PyDict(f)]

KeyMaps == {EmptyMap, "k1" :> "x", "k1" :> "y", "k2" :> "x"}
SideMaps ==
    { [result_error |-> EmptyMap, result_total |-> EmptyMap, result_next |-> EmptyMap],
      [result_error |-> "k1" :> "e", result_total |-> "k2" :> "70",
       result_next |-> "k2" :> "50"] }
BatchResults ==
    { [result |-> r, result_error |-> x.result_error,
       result_total |-> x.result_total, result_next |-> x.result_next] :
          r \in KeyMaps, x \in SideMaps }
    \cup { [result |-> "k1" :> "x", result_error |-> EmptyMap,
            result_total |-> EmptyMap, result_next |-> EmptyMap,
            result_time |-> "start" :> "0"] }

ApiResponses(m) ==
    { [kind |-> k, text |-> "", json |-> PyNone] : k \in {"ReadTimeout", "ConnectionError"} }
    \cup { [kind |-> "text", text |-> "<html>", json |-> PyNone] }
    \cup { JsonResponse("{error:" \o e \o "}", "error" :> e) : e \in ErrorCodes }
    \cup (IF m = "batch"
          THEN { JsonResponse("{result:{...}}", "result" :> PyDict(r)) : r \in BatchResults }
          ELSE { JsonResponse("{result:ok}", "result" :> PyStr("ok")) })

Recoverable(resp) ==
    resp.kind = "json" /\ (IsAuthError(resp.json) \/ IsLimitError(resp.json))

\* what the OAuth endpoint answers
OAuthResponses ==
    { [kind |-> "ConnectionError", text |-> "", json |-> PyNone],
      [kind |-> "text", text |-> "<html>", json |-> PyNone],
      JsonResponse("{error:invalid_grant}", "error" :> "invalid_grant"),
      JsonResponse("{access_token:a1}", "access_token" :> "a1"),
      JsonResponse("{access_token:a1,refresh_token:r1}",
                   ("access_token" :> "a1") @@ ("refresh_token" :> "r1")),
      JsonResponse("{access_token:a2,refresh_token:r2}",
                   ("access_token" :> "a2") @@ ("refresh_token" :> "r2")) }

\* the clients the model constructs: OAuth mode and webhook mode
Credentials ==
    { [auth_token |-> "a0", refresh_token |-> "r0", webhook_key |-> ""],
      [auth_token |-> "", refresh_token |-> "", webhook_key |-> "wk"] }

\* ------------------------------------------------------------ actions
\* the frame of a thread that has not invoked anything yet
Frame(tok, rtok, wk) ==
    [auth_token |-> tok, refresh_token |-> rtok, webhook_key |-> wk,
     op |-> "none", pc |-> "idle", fault |-> "", method |-> "",
     params |-> <<PyNone, PyNone, PyNone, PyNone>>, lists |-> <<>>, depth |-> 0,
     lastReq |-> NoRequest, reqCount |-> 0, lastResp |-> NoResponse,
     lastOAuthReq |-> NoOAuthRequest, oauthCount |-> 0, lastOAuth |-> NoResponse,
     refreshResult |-> PyNone, sleepCount |-> 0, retries |-> 0,
     callResult |-> PyNone, result |-> PyNone, userParams |-> PyNone, ids |-> <<>>,
     count |-> 0, acc |-> EmptyAcc, chunkLog |-> <<>>, seen |-> EmptyAcc,
     prepareCount |-> 0, invocation |-> 0]

Init ==
    /\ \E c \in Credentials :
          /\ auth_token = c.auth_token
          /\ refresh_token = c.refresh_token
          /\ webhook_key = c.webhook_key
    /\ op = "none"
    /\ pc = "idle"
    /\ fault = ""
    /\ method = ""
    /\ params = <<PyNone, PyNone, PyNone, PyNone>>
    /\ lists = <<>>
    /\ depth = 0
    /\ lastReq = NoRequest
    /\ reqCount = 0
    /\ lastResp = NoResponse
    /\ lastOAuthReq = NoOAuthRequest
    /\ oauthCount = 0
    /\ lastOAuth = NoResponse
    /\ refreshResult = PyNone
    /\ sleepCount = 0
    /\ retries = 0
    /\ callResult = PyNone
    /\ result = PyNone
    /\ userParams = PyNone
    /\ ids = <<>>
    /\ count = 0
    /\ acc = EmptyAcc
    /\ chunkLog = <<>>
    /\ seen = EmptyAcc
    /\ prepareCount = 0
    /\ invocation = 0
    /\ peer = Frame(auth_token, refresh_token, webhook_key)

\* the caller invokes call(method, params1, params2, params3, params4)
Call ==
    /\ pc = "idle"
    /\ \E in \in CallInputs :
          \E s \in {call([St EXCEPT !.op = "call", !.invocation = 1,
                                    !.lists = in.lists],
                        in.method, in.params)} : Becomes(s)
    /\ UNCHANGED peer

\* the caller invokes batch(params)
Batch ==
    /\ pc = "idle"
    /\ \E in \in BatchInputs :
          \E s \in {batch([St EXCEPT !.op = "batch", !.invocation = 1,
                                     !.lists = in.lists],
                         in.params)} : Becomes(s)
    /\ UNCHANGED peer

\* the caller invokes encode_cmd(cmd)
EncodeCmd ==
    /\ pc = "idle"
    /\ \E in \in EncodeInputs :
          \E s \in {[St EXCEPT !.op = "encode_cmd", !.invocation = 1,
                               !.lists = in.lists, !.userParams = in.cmd,
                               !.pc = "returned",
                               !.result = PyStr(encode_cmd(in.cmd, in.lists))]} :
              Becomes(s)
    /\ UNCHANGED peer

\* the caller invokes get_tokens()
GetTokens ==
    /\ pc = "idle"
    /\ \E s \in {get_tokens([St EXCEPT !.op = "get_tokens", !.invocation = 1])} :
          Becomes(s)
    /\ UNCHANGED peer

\* the API endpoint answers, or the transport gives up
ApiRespond ==
    /\ pc = "post"
    /\ \E resp \in ApiResponses(method) :
          /\ Recoverable(resp) => retries < MaxRetries
          /\ \E s \in {call_response(St, resp)} : Becomes(s)
    /\ UNCHANGED peer

\* the OAuth endpoint answers, or the transport gives up
OAuthRespond ==
    /\ pc = "oauth"
    /\ \E o \in OAuthResponses : \E s \in {refresh_response(St, o)} : Becomes(s)
    /\ UNCHANGED peer

\* sleep(2) returns
SleepDone ==
    /\ pc = "sleep"
    /\ \E s \in {sleep_done(St)} : Becomes(s)
    /\ UNCHANGED peer

Next == Call \/ Batch \/ EncodeCmd \/ GetTokens \/ ApiRespond \/ OAuthRespond
        \/ SleepDone

Spec == Init /\ [][Next]_vars

\* The caller invokes batch a second time, with the params object it passed
\* the first time: the command map and its lists are as the first invocation
\* left them, and what is counted per operation starts again.
Reinvoked(s) ==
    [s EXCEPT !.invocation = 2, !.reqCount = 0, !.oauthCount = 0, !.sleepCount = 0,
              !.retries = 0, !.prepareCount = 0, !.chunkLog = <<>>,
              !.callResult = PyNone, !.result = PyNone]

BatchAgain ==
    /\ op = "batch"
    /\ pc = "returned"
    /\ invocation = 1
    /\ \E s \in {batch(Reinvoked(St), userParams)} : Becomes(s)
    /\ UNCHANGED peer

NextTwice == Next \/ BatchAgain
SpecTwice == Init /\ [][NextTwice]_vars

\* Two threads that call on one client.  Thread 1 runs in the variables,
\* thread 2 in peer; auth_token and refresh_token are the client's, and both
\* threads read and write them.  The threads can be switched between any two
\* statements, so the two assignments of refresh_tokens are two steps.
Threads == {1, 2}
locals == <<webhook_key, op, pc, fault, method, params, lists, depth, lastReq,
            reqCount, lastResp, lastOAuthReq, oauthCount, lastOAuth, refreshResult,
            sleepCount, retries, callResult, result, userParams, ids, count, acc,
            chunkLog, seen, prepareCount, invocation>>

\* the frame of thread t with the client's fields as they are now
View(t) ==
    IF t = 1 THEN St
    ELSE [peer EXCEPT !.auth_token = auth_token, !.refresh_token = refresh_token]

\* thread t has run up to its next blocking point and left the frame s
Update(t, s) ==
    IF t = 1 THEN Becomes(s) /\ peer' = peer
    ELSE /\ peer' = [s EXCEPT !.auth_token = peer.auth_token,
                              !.refresh_token = peer.refresh_token]
         /\ auth_token' = s.auth_token
         /\ refresh_token' = s.refresh_token
         /\ UNCHANGED locals

ConcInputs == { in \in CallInputs : in.method = PyStr("user.current") }

ConcCall ==
    \E t \in Threads :
        /\ View(t).pc = "idle"
        /\ \E in \in ConcInputs :
              \E s \in {call([View(t) EXCEPT !.op = "call", !.invocation = 1,
                                            !.lists = in.lists],
                            in.method, in.params)} : Update(t, s)

ConcApiRespond ==
    \E t \in Threads :
        /\ View(t).pc = "post"
        /\ \E resp \in ApiResponses(View(t).method) :
              /\ Recoverable(resp) => View(t).retries < MaxRetries
              /\ \E s \in {call_response(View(t), resp)} : Update(t, s)

ConcOAuthRespond ==
    \E t \in Threads :
        /\ View(t).pc = "oauth"
        /\ \E o \in OAuthResponses :
              \E s \in {refresh_access(View(t), o)} : Update(t, s)

ConcAssign ==
    \E t \in Threads :
        /\ View(t).pc = "assign"
        /\ \E s \in {refresh_rest(View(t))} : Update(t, s)

ConcSleepDone ==
    \E t \in Threads :
        /\ View(t).pc = "sleep"
        /\ \E s \in {sleep_done(View(t))} : Update(t, s)

NextConc == ConcCall \/ ConcApiRespond \/ ConcOAuthRespond \/ ConcAssign
            \/ ConcSleepDone
SpecConc == Init /\ [][NextConc]_vars

\* One call whose blocking points all end: the POST to the API endpoint has a
\* timeout (line 75), sleep(2) returns, and the OAuth endpoint is taken to
\* answer.  The server gives up to MaxRetries recoverable responses.
NextCall == Call \/ ApiRespond \/ OAuthRespond \/ SleepDone
SpecCall == Init /\ [][NextCall]_vars /\ WF_vars(NextCall)

\* ------------------------------------------------------------- claims
\* the three kinds of step of a running operation, told by where it blocks
ApiStep == pc = "post"
OAuthStep == pc = "oauth"
SleepStep == pc = "sleep"
Ended == pc \in {"returned", "raised"}

\* the OAuth response carries both tokens
Delivered(o) ==
    o.kind = "json" /\ HasKey(o.json, "access_token") /\ HasKey(o.json, "refresh_token")
\* refresh_tokens takes its except branch: the body is no JSON, or a token is missing
Undelivered(o) ==
    \/ o.kind = "text"
    \/ o.kind = "json" /\ ~Delivered(o)
RefreshFailure(o) == ErrorMap("Error on decode oauth response [" \o o.text \o "]")

SameRequestAgain ==
    /\ pc' = "post"
    /\ reqCount' = reqCount + 1
    /\ method' = method
    /\ params' = params
    /\ lastReq'.method = lastReq.method
    /\ lastReq'.url = lastReq.url
    /\ lastReq'.params = lastReq.params

\* C1: after an auth error and a refresh that succeeds the call is made again
\* exactly once, with the method and parameters of the request that was
\* refused, and the stored auth_token is the access_token of the refresh
\* response (and stays so until the next refresh response).
C1_RetryAfterRefresh ==
    /\ [][(OAuthStep /\ Delivered(lastOAuth')) =>
            /\ IsAuthError(lastResp.json)
            /\ SameRequestAgain
            /\ oauthCount' = oauthCount
            /\ sleepCount' = sleepCount
            /\ auth_token' = lastOAuth'.json.v["access_token"]]_vars
    /\ [][reqCount' # reqCount => reqCount' = reqCount + 1]_vars
    /\ [](Delivered(lastOAuth) => auth_token = lastOAuth.json.v["access_token"])

C1_Witness ==
    /\ op = "call"
    /\ pc = "post"
    /\ reqCount = 2
    /\ oauthCount = 1
    /\ HasKey(lastResp.json, "error")
    /\ lastResp.json.v["error"] = "expired_token"
    /\ Delivered(lastOAuth)
    /\ auth_token = "a1"
    /\ lastReq.auth = <<"auth=a1&">>

\* C2: a refresh that fails leaves auth_token and refresh_token as they were.
C2_FailedRefreshKeepsTokens ==
    [][(OAuthStep /\ Undelivered(lastOAuth')) =>
          /\ auth_token' = auth_token
          /\ refresh_token' = refresh_token]_vars

\* C3: no exception other than those of argument validation leaves call or batch.
ArgumentFaults ==
    {"Exception: Empty Method", "Exception: Invalid 'cmd' structure",
     "Exception: Invalid 'cmd' method description",
     "Exception: Batch call cannot contain batch methods"}
C3_NoFault == pc = "raised" => fault \in ArgumentFaults

\* C4: what call returns never carries a rate limit or auth error code; after
\* an auth error the only thing call returns is the failure of the refresh.
C4_NoRecoverableSurfaced ==
    /\ HasKey(callResult, "error") =>
          callResult.v["error"] \notin (AuthErrors \cup LimitErrors)
    /\ (depth = 0 /\ callResult.t = "dict" /\ IsAuthError(lastResp.json)) =>
          /\ Undelivered(lastOAuth)
          /\ callResult = RefreshFailure(lastOAuth)

C4_Witness ==
    /\ op = "call"
    /\ pc = "returned"
    /\ sleepCount = 1
    /\ oauthCount = 1
    /\ IsAuthError(lastResp.json)
    /\ result = RefreshFailure(lastOAuth)

\* C5: when the refresh fails, call returns the failure of the refresh in that
\* very step, and no request is sent to the API endpoint then or later.
C5_FailedRefreshReturns ==
    /\ [][(OAuthStep /\ Undelivered(lastOAuth')) =>
            /\ callResult' = RefreshFailure(lastOAuth')
            /\ refreshResult' = RefreshFailure(lastOAuth')
            /\ depth' = 0
            /\ reqCount' = reqCount
            /\ lastReq' = lastReq
            /\ Ended'
            /\ op = "call" => (pc' = "returned" /\ result' = callResult')]_vars
    /\ [][~Ended]_vars

C5_Witness ==
    /\ op = "call"
    /\ pc = "returned"
    /\ reqCount = 1
    /\ oauthCount = 1
    /\ lastOAuth.text = "{error:invalid_grant}"
    /\ result = ErrorMap("Error on decode oauth response [{error:invalid_grant}]")

\* C6: a rate limit response is followed by one sleep and then by the same
\* request; nothing is sent to the API endpoint before the sleep is over, and
\* a sleep happens for no other reason.
C6_SleepThenRetry ==
    /\ [][(ApiStep /\ IsLimitError(Decode(lastResp'))) =>
            /\ pc' = "sleep"
            /\ reqCount' = reqCount
            /\ sleepCount' = sleepCount
            /\ oauthCount' = oauthCount]_vars
    /\ [][SleepStep =>
            /\ IsLimitError(lastResp.json)
            /\ lastResp' = lastResp
            /\ sleepCount' = sleepCount + 1
            /\ SameRequestAgain
            /\ lastReq'.auth = lastReq.auth]_vars
    /\ [][(sleepCount' # sleepCount /\ pc # "idle") => SleepStep]_vars
    /\ [][pc' = "sleep" => (ApiStep /\ IsLimitError(lastResp'.json))]_vars

C6_Witness ==
    /\ pc = "post"
    /\ sleepCount = 2
    /\ reqCount = 3
    /\ IsLimitError(lastResp.json)

\* C7: a body that is no JSON, a read timeout and a connection failure each
\* end the call with their own error mapping: no refresh, no sleep, no
\* further request.
TerminalError(resp) ==
    CASE resp.kind = "text" -> "Error on decode api response [" \o resp.text \o "]"
      [] resp.kind = "ReadTimeout" -> "Timeout waiting expired [60 sec]"
      [] resp.kind = "ConnectionError" -> "Max retries exceeded [10]"
C7_TerminalErrors ==
    [][(ApiStep /\ lastResp'.kind \in {"text", "ReadTimeout", "ConnectionError"}) =>
          /\ callResult' = ErrorMap(TerminalError(lastResp'))
          /\ depth' = 0
          /\ reqCount' = reqCount
          /\ oauthCount' = oauthCount
          /\ sleepCount' = sleepCount
          /\ auth_token' = auth_token
          /\ refresh_token' = refresh_token
          /\ Ended'
          /\ op = "call" => (pc' = "returned" /\ result' = callResult')]_vars

C7_Witness ==
    /\ op = "call"
    /\ pc = "returned"
    /\ lastResp.kind = "ReadTimeout"
    /\ retries = 1
    /\ reqCount = 2
    /\ result = ErrorMap("Timeout waiting expired [60 sec]")

\* C8: the calls of batch carry the sorted ids in consecutive chunks of 49,
\* the last one possibly shorter, each id once; a batch that returns has made
\* ceil(n / 49) of them.
Ascending(q) == \A i \in 1..(Len(q) - 1) : q[i] < q[i + 1]
ChunkCount(n) == (n + BATCH_LIMIT - 1) \div BATCH_LIMIT
ExpectedChunk(j) ==
    SubSeq(ids, (j - 1) * BATCH_LIMIT + 1,
           IF j * BATCH_LIMIT < Len(ids) THEN j * BATCH_LIMIT ELSE Len(ids))
C8_Chunks ==
    (op = "batch" /\ HasBatchKeys(userParams) /\ userParams.cmd.t = "dict") =>
        /\ Ascending(ids)
        /\ {ids[i] : i \in 1..Len(ids)} = DOMAIN userParams.cmd.v
        /\ Len(ids) = Cardinality(DOMAIN userParams.cmd.v)
        /\ Len(chunkLog) <= ChunkCount(Len(ids))
        /\ \A j \in 1..Len(chunkLog) :
              /\ chunkLog[j] = ExpectedChunk(j)
              /\ j < ChunkCount(Len(ids)) => Len(chunkLog[j]) = BATCH_LIMIT
        /\ pc = "post" =>
              /\ Len(chunkLog) >= 1
              /\ DOMAIN params[1].cmd.v =
                    {chunkLog[Len(chunkLog)][i] : i \in 1..Len(chunkLog[Len(chunkLog)])}
        /\ pc = "returned" => Len(chunkLog) = ChunkCount(Len(ids))

C8_Witness ==
    /\ op = "batch"
    /\ pc = "returned"
    /\ Len(ids) = 120
    /\ Len(chunkLog) = 3
    /\ Len(chunkLog[1]) = 49
    /\ Len(chunkLog[2]) = 49
    /\ Len(chunkLog[3]) = 22

\* C9 as stated: the result_error, result_total and result_next sub-maps of
\* the accumulator batch returns are empty.
BatchReturned == op = "batch" /\ pc = "returned" /\ HasKey(result, "result")
SideMapNames == {"result_error", "result_total", "result_next"}
C9_SideMapsEmpty ==
    BatchReturned => \A k \in SideMapNames : result.v["result"].v[k] = EmptyMap

\* C9 as amended: each of the three sub-maps of the accumulator batch returns
\* holds every key the chunk responses carried in the sub-map of that name,
\* with the value of the first chunk that carried it.
C9_SideMapsPropagated ==
    BatchReturned =>
        /\ DOMAIN result.v["result"].v = SubMaps
        /\ \A k \in SideMapNames : result.v["result"].v[k] = seen[k]

C9_Witness ==
    /\ BatchReturned
    /\ Len(chunkLog) = 2
    /\ result.v["result"].v["result_error"] = ("k1" :> "e")
    /\ result.v["result"].v["result_next"] = ("k2" :> "50")

\* a step of batch in which a chunk result was merged
Merged ==
    /\ op = "batch"
    /\ ApiStep
    /\ pc' \in {"post", "returned"}
    /\ callResult' = lastResp'.json
    /\ HasKey(callResult', "result")

\* C10 as stated: of a key that is in the accumulator and in the chunk just
\* merged, the accumulator holds the value of the chunk; the other keys of the
\* accumulator keep their values.
C10_LaterChunkWins ==
    [][Merged =>
          \A k \in DOMAIN acc["result"] :
              acc'["result"][k] =
                  IF k \in DOMAIN lastResp'.json.v["result"].v["result"]
                  THEN lastResp'.json.v["result"].v["result"][k]
                  ELSE acc["result"][k]]_vars

\* C10 as amended: of a key that is in the accumulator and in the chunk just
\* merged, the accumulator keeps the value it had (the earlier chunk's); the
\* keys only the chunk has are added with the chunk's values, and nothing else
\* changes.
C10_EarlierChunkWins ==
    [][Merged =>
          \A m \in SubMaps :
              /\ DOMAIN acc'[m] =
                    DOMAIN acc[m] \cup DOMAIN lastResp'.json.v["result"].v[m]
              /\ \A k \in DOMAIN acc'[m] :
                    acc'[m][k] =
                        IF k \in DOMAIN acc[m] THEN acc[m][k]
                        ELSE lastResp'.json.v["result"].v[m][k]]_vars

C10_Witness ==
    /\ op = "batch"
    /\ pc = "returned"
    /\ Len(chunkLog) = 2
    /\ callResult = lastResp.json
    /\ lastResp.json.v["result"].v["result"] = ("k1" :> "y")
    /\ acc["result"] = ("k1" :> "x")

\* C11: an operation that ends with an argument fault has sent no request:
\* the arguments are validated before anything goes to the network, through
\* call and through batch, wherever the bad description is.
C11_PreFlight ==
    (pc = "raised" /\ fault \in ArgumentFaults) =>
        /\ reqCount = 0
        /\ oauthCount = 0

\* C12: batch with params that lack halt or cmd returns the structure error
\* in that very step, sends nothing and leaves the tokens alone.
C12_InvalidStructure ==
    [][(pc = "idle" /\ op' = "batch" /\ ~HasBatchKeys(userParams')) =>
          /\ pc' = "returned"
          /\ result' = ErrorMap("Invalid batch structure")
          /\ reqCount' = 0
          /\ oauthCount' = 0
          /\ lastReq' = NoRequest
          /\ lastOAuthReq' = NoOAuthRequest
          /\ auth_token' = auth_token
          /\ refresh_token' = refresh_token]_vars

C12_Witness ==
    /\ op = "batch"
    /\ pc = "returned"
    /\ ~HasBatchKeys(userParams)
    /\ DOMAIN userParams.v = {"halt"}
    /\ result = ErrorMap("Invalid batch structure")
    /\ reqCount = 0
    /\ auth_token = "a0"

\* C13: what encode_cmd returns for a command map is what it returns for the
\* same id-to-value pairs inserted in any other order, and it is the fragments
\* of the ids from the smallest id to the largest.
Fragment(i) == urlencode(CmdItems(i, userParams.v[i], lists)) \o "&"
RECURSIVE AscendingFragments(_)
AscendingFragments(S) ==
    IF S = {} THEN ""
    ELSE LET least == CHOOSE x \in S : \A y \in S : x <= y
         IN Fragment(least) \o AscendingFragments(S \ {least})
C13_EncodeDeterministic ==
    (op = "encode_cmd" /\ pc = "returned") =>
        /\ \A q \in Orders(DOMAIN userParams.v) :
              PyStr(encode_cmd(PyOrdered(userParams.v, q), lists)) = result
        /\ result = PyStr(AscendingFragments(DOMAIN userParams.v))

C13_Witness ==
    /\ op = "encode_cmd"
    /\ pc = "returned"
    /\ userParams.order = <<3, 1, 2>>
    /\ result =
          PyStr("cmd[1]=user.get?ID=1&&cmd[2]=user.get?ID=2&&cmd[3]=user.get?ID=3&&")

\* C14: within one call('batch', params1) prepare_batch runs once, on the
\* first attempt: every list of the command map has lost its method once and
\* no more, the bundle is marked, and a retry after a refresh or a sleep
\* prepares nothing and sends the parameter slots of the attempt before.
BatchRetry ==
    /\ op = "call"
    /\ method = "batch"
    /\ pc \in {"oauth", "sleep"}
    /\ pc' = "post"
C14_PreparedOnce ==
    /\ [](op = "call" => prepareCount <= 1)
    /\ []((op = "call" /\ method = "batch" /\ pc = "post") =>
            /\ prepareCount = 1
            /\ params[1].prepared
            /\ \A i \in DOMAIN lists : lists[i] = Tail(UserList(i)))
    /\ [][BatchRetry =>
            /\ prepareCount' = prepareCount
            /\ params' = params
            /\ lists' = lists
            /\ lastReq'.params = lastReq.params]_vars

C14_Witness ==
    /\ op = "call"
    /\ method = "batch"
    /\ pc = "post"
    /\ reqCount = 3
    /\ oauthCount = 1
    /\ sleepCount = 1
    /\ prepareCount = 1
    /\ lastReq.params = <<"cmd[1]=user.get?ID=1&&cmd[2]=user.get?ID=2&&&halt=0&">>

\* C15: auth_token and refresh_token change only in the step of a refresh
\* that succeeds, and a request goes to the OAuth endpoint only in the step
\* that handles an API response whose error is NO_AUTH_FOUND or expired_token.
C15_TokensFrame ==
    /\ [][(auth_token' # auth_token \/ refresh_token' # refresh_token) =>
            (OAuthStep /\ Delivered(lastOAuth'))]_vars
    /\ [][(oauthCount' # oauthCount \/ lastOAuthReq' # lastOAuthReq) =>
            (ApiStep /\ IsAuthError(Decode(lastResp')))]_vars

TokenPair(o) == <<o.json.v["access_token"], o.json.v["refresh_token"]>>
C17_TokensRace ==
    /\ [][(oauthCount' # oauthCount =>
               lastOAuthReq'.refresh_token = refresh_token)
           /\ (peer'.oauthCount # peer.oauthCount =>
                  peer'.lastOAuthReq.refresh_token = refresh_token)]_vars
    /\ []((peer.oauthCount = 0 /\ pc # "assign" /\ Delivered(lastOAuth)) =>
            <<auth_token, refresh_token>> = TokenPair(lastOAuth))
    /\ []((oauthCount = 0 /\ peer.pc # "assign" /\ Delivered(peer.lastOAuth)) =>
            <<auth_token, refresh_token>> = TokenPair(peer.lastOAuth))

C17_Witness ==
    /\ pc = "post"
    /\ peer.pc = "post"
    /\ lastOAuthReq.refresh_token = "r0"
    /\ peer.lastOAuthReq.refresh_token = "r0"
    /\ lastOAuth.text = "{access_token:a1,refresh_token:r1}"
    /\ peer.lastOAuth.text = "{access_token:a2,refresh_token:r2}"
    /\ auth_token = "a2"
    /\ refresh_token = "r1"

\* C18: every request at the API endpoint carries the auth token stored when
\* it was sent (no auth slot for an empty token); the retry sent after a
\* refresh that succeeded, and every request after it, carries the access
\* token of the latest refresh response, which is not the slot of the refused
\* request unless the OAuth endpoint handed out that very token again.
AuthSlot(tok) == IF tok # "" THEN <<"auth=" \o tok \o "&">> ELSE <<>>
C19_SameTwice ==
    [][(invocation = 1 /\ invocation' = 2) =>
          /\ \A i \in DOMAIN lists : lists[i] # <<>> /\ Head(lists[i]).t = "str"
          /\ lists' = lists
          /\ pc' # "raised"
          /\ chunkLog = <<>> => (pc' = "returned" /\ result' = result)
          /\ chunkLog # <<>> => (pc' = "post" /\ chunkLog' = <<chunkLog[1]>>)]_vars

====
